---- MODULE Spec2Model ----
(***************************************************************************)
(* The practice mini-games of The Cognitive Loop front end: the Swipe Sort *)
(* component (frontend/src/pages/SwipeSortGame.jsx) and the Impostor       *)
(* component (frontend/src/pages/ImpostorGame.jsx), together with the two  *)
(* HTTP calls they make (/api/game/generate and /api/game/answer) and the  *)
(* local-storage entry that holds the session id.  App.jsx renders one     *)
(* page at a time, so at most one game component is mounted; the React     *)
(* state of the mounted component is held in the variables below, which    *)
(* carry the names the two components share.  Navigation unmounts the      *)
(* component: its state is gone, and the calls it has in flight stay in    *)
(* flight with nobody left to take their outcome.                          *)
(***************************************************************************)
EXTENDS Integers, Sequences, FiniteSets

\* ---------------------------------------------------------------- bounds
MaxBatch == 2      \* longest batch of which the server returns every combination of games
MaxRounds == 2     \* scored rounds per behaviour
MaxPending == 1    \* calls in flight at once, beside the generate call of the mounted component

\* ------------------------------------------------------------- constants
SWIPE_THRESHOLD_PX == 110

\* ----------------------------------------------------------- value spaces
Null == [null |-> TRUE]          \* JS null for object-valued state
NoString == "null"               \* JS null / undefined for string-valued state
Tri(b) == IF b THEN "true" ELSE "false"   \* true | false (| "null")

Cards == {"a", "b"}
Sides == {"left", "right"}
NoSide == "undefined"
Offsets == {0 - SWIPE_THRESHOLD_PX, 0, SWIPE_THRESHOLD_PX}

Range(s) == {s[i] : i \in 1..Len(s)}
Remove(s, i) == SubSeq(s, 1, i - 1) \o SubSeq(s, i + 1, Len(s))

\* Swipe Sort games the server can return.  The component accepts whatever
\* the server sends, so the set holds well-formed and malformed games.
SG_ab == [cards |-> <<"a", "b">>,
          answer_key |-> [c \in Cards |-> IF c = "a" THEN "left" ELSE "right"],
          why |-> [c \in Cards |-> IF c = "a" THEN "why-a" ELSE ""]]
SG_dup == [cards |-> <<"a", "a">>,
           answer_key |-> [c \in Cards |-> IF c = "a" THEN "left" ELSE NoSide],
           why |-> [c \in Cards |-> ""]]
SG_nokey == [cards |-> <<"b", "a">>,
             answer_key |-> [c \in Cards |-> IF c = "a" THEN "left" ELSE NoSide],
             why |-> [c \in Cards |-> ""]]
SwipeGames == {SG_ab, SG_dup, SG_nokey}

\* Impostor games the server can return.
IG_y == [options |-> <<"x", "y", "z">>, impostor |-> "y", why |-> "why-y"]
IG_two == [options |-> <<"x", "y", "x">>, impostor |-> "x", why |-> ""]
ImpostorGames == {IG_y, IG_two}

GamesOf(game_type) == IF game_type = "swipe_sort" THEN SwipeGames ELSE ImpostorGames

SeqsUpTo(S, n) == UNION {[1..k -> S] : k \in 0..n}

Details == {"detail-1", NoString}

\* a batch that leaves two different games in the queue
LongBatch(game_type) ==
    IF game_type = "swipe_sort" THEN <<SG_ab, SG_dup, SG_nokey>> ELSE <<IG_y, IG_two, IG_y>>

\* data.response.games: every batch of up to MaxBatch games, and the long batch
Batches(game_type) == SeqsUpTo(GamesOf(game_type), MaxBatch) \cup {LongBatch(game_type)}

\* What a call to /api/game/generate can come back with.
GenerateResponses(game_type) ==
    {[kind |-> "ok", games |-> b, detail |-> NoString] : b \in Batches(game_type)}
    \cup {[kind |-> "not_ok", games |-> <<>>, detail |-> d] : d \in Details}
    \cup {[kind |-> "rejected", games |-> <<>>, detail |-> NoString]}

Text(s) == <<s>>
EmptyAnswers == [c \in Cards |-> NoSide]

VARIABLES
    page,            \* App.jsx currentPage: the game component that is rendered
    storedSessionId, \* localStorage[SESSION_STORAGE_KEY]
    mounted,         \* the mount effect has run
    sessionId, gameState, currentGame, queuedGames,
    streak, bestStreak, score, message,
    \* Swipe Sort only
    remainingCards, bucketLeft, bucketRight, userAnswers, checkReport, resultStatus,
    \* Impostor only
    selectedCard, flippedCards, isCorrect,
    flipTimer,       \* the 900 ms timeout of the flip-back effect is armed
    genCalls,        \* /api/game/generate calls in flight, oldest first
    answerCalls,     \* /api/game/answer calls in flight, oldest first
    \* the session held by the orchestrator (spec sections 3 and 4)
    conceptGraph,    \* names of the concepts ingested so far
    confusionScore,  \* tracker: concept -> confusion score, in units of 1/Scale
    response,        \* what the orchestrator returned for the last request
    detached         \* calls in flight whose component was unmounted, counted by kind

orchestrator == <<conceptGraph, confusionScore, response>>
env == <<page, storedSessionId, orchestrator, detached>>
stats == <<streak, bestStreak, score>>
swipeRound == <<remainingCards, bucketLeft, bucketRight, userAnswers, checkReport, resultStatus>>
impostorRound == <<selectedCard, flippedCards, isCorrect>>
component == <<mounted, sessionId, gameState, currentGame, queuedGames, stats, message,
               swipeRound, impostorRound, flipTimer, genCalls, answerCalls>>
vars == <<page, storedSessionId, mounted, sessionId, gameState, currentGame, queuedGames,
          streak, bestStreak, score, message,
          remainingCards, bucketLeft, bucketRight, userAnswers, checkReport, resultStatus,
          selectedCard, flippedCards, isCorrect, flipTimer, genCalls, answerCalls,
          conceptGraph, confusionScore, response, detached>>

Concepts == {"A", "B"}
NoResponse == [type |-> "none", error |-> "none"]

\* the pages App renders; MatchPairsGame, Chat, Home and About keep no state
\* that the two game components read, beside the stored session id
GamePages == {"swipe-sort-game", "impostor-game", "match-pairs-game"}
NavbarPages == {"home", "games", "chat", "about"}
Pages == NavbarPages \cup GamePages

\* useState({ points: 0, rounds: 0 }) / useState({ correct: 0, total: 0 })
InitialScore(p) ==
    IF p = "swipe-sort-game" THEN [points |-> 0, rounds |-> 0]
    ELSE IF p = "impostor-game" THEN [correct |-> 0, total |-> 0]
    ELSE Null

NoneDetached == [generate |-> 0, answer |-> 0]
detachedTotal == detached.generate + detached.answer

\* App starts on the page saved in local storage, 'home' without one
Init ==
    /\ page \in Pages
    /\ storedSessionId \in {NoString, "s1"}
    /\ mounted = FALSE
    /\ sessionId = NoString
    /\ gameState = "loading"
    /\ currentGame = Null
    /\ queuedGames = <<>>
    /\ streak = 0
    /\ bestStreak = 0
    /\ score = InitialScore(page)
    /\ message = Text("")
    /\ remainingCards = <<>>
    /\ bucketLeft = <<>>
    /\ bucketRight = <<>>
    /\ userAnswers = EmptyAnswers
    /\ checkReport = Null
    /\ resultStatus = "null"
    /\ selectedCard = NoString
    /\ flippedCards = <<>>
    /\ isCorrect = "null"
    /\ flipTimer = FALSE
    /\ genCalls = <<>>
    /\ answerCalls = <<>>
    /\ conceptGraph = {}
    /\ confusionScore = [c \in Concepts |-> 0]
    /\ response = NoResponse
    /\ detached = NoneDetached

\* ------------------------------------------------------------ environment
\* Another page or tab writes or removes the session id in local storage.
\* The components read the entry at mount and on Retry only, so a change is
\* modelled where a read can follow it: while no game component has run
\* its mount effect, and in 'error', where Retry is offered.
StorageChange ==
    /\ ~mounted \/ gameState = "error"
    /\ storedSessionId' \in {NoString, "s1"} \ {storedSessionId}
    /\ UNCHANGED <<page, orchestrator, detached, mounted, sessionId, gameState, currentGame, queuedGames,
                   stats, message, swipeRound, impostorRound, flipTimer, genCalls, answerCalls>>

\* The server (or the network) settles the oldest unsettled generate call.
GenerateRespond ==
    /\ genCalls # <<>>
    /\ genCalls[1].response = Null
    /\ \E r \in GenerateResponses(genCalls[1].game_type) :
          genCalls' = <<[genCalls[1] EXCEPT !.response = r]>> \o Tail(genCalls)
    /\ UNCHANGED <<env, mounted, sessionId, gameState, currentGame, queuedGames, stats, message,
                   swipeRound, impostorRound, flipTimer, answerCalls>>

\* The write of an answer call succeeded: its promise is fulfilled, and no
\* handler is attached to the fulfilment.
AnswerFulfilled ==
    /\ \E i \in 1..Len(answerCalls) :
          /\ answerCalls[i].status = "sent"
          /\ answerCalls' = Remove(answerCalls, i)
    /\ UNCHANGED <<env, mounted, sessionId, gameState, currentGame, queuedGames, stats, message,
                   swipeRound, impostorRound, flipTimer, genCalls>>

\* The write of an answer call failed: its promise is rejected.  A call that
\* is never settled stays "sent".
AnswerRejected ==
    /\ \E i \in 1..Len(answerCalls) :
          /\ answerCalls[i].status = "sent"
          /\ answerCalls' = [answerCalls EXCEPT ![i].status = "rejected"]
    /\ UNCHANGED <<env, mounted, sessionId, gameState, currentGame, queuedGames, stats, message,
                   swipeRound, impostorRound, flipTimer, genCalls>>

\* the state a component renders from
ui == <<mounted, sessionId, gameState, currentGame, queuedGames, streak, bestStreak, score, message,
        remainingCards, bucketLeft, bucketRight, userAnswers, checkReport, resultStatus,
        selectedCard, flippedCards, isCorrect, flipTimer>>

\* a catch handler that reports the failed write as a game error
SS_answerCatch_error ==
    /\ gameState' = "error"
    /\ message' = <<"Error: ", "Failed to fetch">>
    /\ UNCHANGED <<mounted, sessionId, currentGame, queuedGames, stats,
                   swipeRound, impostorRound, flipTimer>>

\* .catch(() => {}) of handleCheck
SS_answerCatch == UNCHANGED ui

\* .catch(() => { /* ignore network errors; UI still works locally */ }) of handleCardClick
IM_answerCatch == UNCHANGED ui

\* The rejection of an answer call runs the catch handler of the component
\* that made the call.
AnswerCaught ==
    /\ \E i \in 1..Len(answerCalls) :
          /\ answerCalls[i].status = "rejected"
          /\ answerCalls' = Remove(answerCalls, i)
          /\ IF answerCalls[i].game_type = "swipe_sort" THEN SS_answerCatch ELSE IM_answerCatch
    /\ UNCHANGED <<env, genCalls>>

\* new Error(...).message as the catch block of startGame sees it.
ErrorMessage(r) ==
    IF r.kind = "rejected" THEN "Failed to fetch"
    ELSE IF r.kind = "not_ok"
         THEN (IF r.detail # NoString THEN r.detail ELSE "Failed to generate game")
         ELSE "No games returned from server"

GenerateCall(game_type) == [session_id |-> sessionId, game_type |-> game_type, response |-> Null]


\* ==================================================================== App
\* setCurrentPage(to): App renders the page `to`.  The component of the page
\* that is left is unmounted and its state dropped; the cleanup of the
\* flip-back effect clears its timeout; the component of the new page starts
\* from its useState initial values and has not run its mount effect.  The
\* calls the old component has in flight stay in flight: their
\* continuations set state of an unmounted component, which React drops.
App_setCurrentPage(to) ==
    IF to = page
    THEN UNCHANGED vars
    ELSE /\ Len(genCalls) + Len(answerCalls) + detachedTotal <= MaxPending
         /\ page' = to
         /\ detached' = [generate |-> detached.generate + Len(genCalls),
                          answer |-> detached.answer + Len(answerCalls)]
         /\ mounted' = FALSE
         /\ sessionId' = NoString
         /\ gameState' = "loading"
         /\ currentGame' = Null
         /\ queuedGames' = <<>>
         /\ streak' = 0
         /\ bestStreak' = 0
         /\ score' = InitialScore(to)
         /\ message' = Text("")
         /\ remainingCards' = <<>>
         /\ bucketLeft' = <<>>
         /\ bucketRight' = <<>>
         /\ userAnswers' = EmptyAnswers
         /\ checkReport' = Null
         /\ resultStatus' = "null"
         /\ selectedCard' = NoString
         /\ flippedCards' = <<>>
         /\ isCorrect' = "null"
         /\ flipTimer' = FALSE
         /\ genCalls' = <<>>
         /\ answerCalls' = <<>>
         /\ UNCHANGED <<storedSessionId, orchestrator>>

\* a link of the Navbar: Home, Games, Chat, About
Navbar_navigate == \E to \in NavbarPages : App_setCurrentPage(to)

\* a Play button of the Games page
Games_play ==
    /\ page = "games"
    /\ \E to \in GamePages : App_setCurrentPage(to)

\* A detached call is settled: the response or the failure arrives and the
\* continuation (startGame after its await, the empty catch of the answer
\* call) runs for a component that is no longer mounted.
DetachedSettle ==
    /\ \E kind \in {"generate", "answer"} :
          /\ detached[kind] > 0
          /\ detached' = [detached EXCEPT ![kind] = @ - 1]
    /\ UNCHANGED <<page, storedSessionId, orchestrator, component>>

\* ============================================================ Swipe Sort
SS == page = "swipe-sort-game"

activeCard == IF Len(remainingCards) > 0 THEN remainingCards[1] ELSE NoString

\* the test without the count of the cards that are left
allSwiped_anyGame == currentGame # Null

\* const allSwiped = currentGame && remainingCards.length === 0
allSwiped == currentGame # Null /\ Len(remainingCards) = 0

\* the stored id taken without the test for a missing one
SS_readSession_unchecked ==
    /\ sessionId' = storedSessionId
    /\ gameState' = "ready"
    /\ message' = Text("Swipe cards left/right into the correct category.")

\* the body shared by the mount effect and retry
SS_readSession ==
    IF storedSessionId = NoString
    THEN /\ sessionId' = NoString
         /\ gameState' = "error"
         /\ message' = Text("No session found. Go to Chat, ingest content, and get the concept marked understood first.")
    ELSE /\ sessionId' = storedSessionId
         /\ gameState' = "ready"
         /\ message' = Text("Swipe cards left/right into the correct category.")

\* useEffect(..., []) of SwipeSortGame
SS_mount ==
    /\ SS
    /\ ~mounted
    /\ mounted' = TRUE
    /\ SS_readSession
    /\ UNCHANGED <<env, currentGame, queuedGames, stats, swipeRound, impostorRound, flipTimer,
                   genCalls, answerCalls>>

\* the reset without setUserAnswers({})
SS_resetRoundState_keepAnswers(game) ==
    /\ remainingCards' = game.cards
    /\ bucketLeft' = <<>>
    /\ bucketRight' = <<>>
    /\ userAnswers' = userAnswers
    /\ checkReport' = Null
    /\ resultStatus' = "null"
    /\ message' = Text("Swipe cards into the correct category.")

SS_resetRoundState(game) ==
    /\ remainingCards' = game.cards
    /\ bucketLeft' = <<>>
    /\ bucketRight' = <<>>
    /\ userAnswers' = EmptyAnswers
    /\ checkReport' = Null
    /\ resultStatus' = "null"
    /\ message' = Text("Swipe cards into the correct category.")

\* startGame without setGameState('loading')
SS_startGame_noLoading ==
    IF sessionId = NoString
    THEN /\ message' = Text("Error: No session found. Please refresh the page.")
         /\ UNCHANGED <<env, mounted, sessionId, gameState, currentGame, queuedGames, stats,
                        swipeRound, impostorRound, flipTimer, genCalls, answerCalls>>
    ELSE /\ message' = Text("Generating game...")
         /\ genCalls' = Append(genCalls, GenerateCall("swipe_sort"))
         /\ UNCHANGED <<env, mounted, sessionId, gameState, currentGame, queuedGames, stats,
                        swipeRound, impostorRound, flipTimer, answerCalls>>

\* startGame up to the await of fetch
SS_startGame ==
    IF sessionId = NoString
    THEN /\ message' = Text("Error: No session found. Please refresh the page.")
         /\ UNCHANGED <<env, mounted, sessionId, gameState, currentGame, queuedGames, stats,
                        swipeRound, impostorRound, flipTimer, genCalls, answerCalls>>
    ELSE /\ gameState' = "loading"
         /\ message' = Text("Generating game...")
         /\ genCalls' = Append(genCalls, GenerateCall("swipe_sort"))
         /\ UNCHANGED <<env, mounted, sessionId, currentGame, queuedGames, stats,
                        swipeRound, impostorRound, flipTimer, answerCalls>>

\* the "Start Game" button, rendered in 'ready'
SS_clickStart ==
    /\ SS
    /\ gameState = "ready"
    /\ SS_startGame

\* a catch block that also drops the game in play and the queue
SS_startGameCatch_clearing(r) ==
    /\ message' = <<"Error: ", ErrorMessage(r)>>
    /\ gameState' = "error"
    /\ currentGame' = Null
    /\ queuedGames' = <<>>
    /\ UNCHANGED swipeRound

\* the catch block of startGame
SS_startGameCatch(r) ==
    /\ message' = <<"Error: ", ErrorMessage(r)>>
    /\ gameState' = "error"
    /\ UNCHANGED <<currentGame, queuedGames, swipeRound>>

\* startGame from the await of fetch to its end
SS_startGameResume ==
    /\ SS
    /\ \E i \in 1..Len(genCalls) :
          /\ genCalls[i].response # Null
          /\ genCalls' = Remove(genCalls, i)
          /\ LET r == genCalls[i].response
                 games == r.games
             IN IF r.kind = "ok" /\ Len(games) # 0
                THEN /\ currentGame' = games[1]
                     /\ queuedGames' = Tail(games)
                     /\ SS_resetRoundState(games[1])
                     /\ gameState' = "playing"
                ELSE SS_startGameCatch(r)
    /\ UNCHANGED <<env, mounted, sessionId, stats, impostorRound, flipTimer, answerCalls>>

\* the reset of the score alone
SS_resetStats_scoreOnly ==
    /\ SS
    /\ gameState = "ready"
    /\ score.rounds > 0
    /\ score' = [points |-> 0, rounds |-> 0]
    /\ message' = Text("Stats reset! Ready for a fresh start.")
    /\ UNCHANGED <<env, mounted, sessionId, gameState, currentGame, queuedGames, streak,
                   bestStreak, swipeRound, impostorRound, flipTimer, genCalls, answerCalls>>

\* the "Reset Stats" button, rendered in 'ready' once a round was scored
SS_resetStats ==
    /\ SS
    /\ gameState = "ready"
    /\ score.rounds > 0
    /\ streak' = 0
    /\ bestStreak' = 0
    /\ score' = [points |-> 0, rounds |-> 0]
    /\ message' = Text("Stats reset! Ready for a fresh start.")
    /\ UNCHANGED <<env, mounted, sessionId, gameState, currentGame, queuedGames,
                   swipeRound, impostorRound, flipTimer, genCalls, answerCalls>>

\* the card appended to both buckets
SS_recordSwipe_both(cardText, side) ==
    /\ userAnswers' = [userAnswers EXCEPT ![cardText] = side]
    /\ bucketLeft' = Append(bucketLeft, cardText)
    /\ bucketRight' = Append(bucketRight, cardText)
    /\ remainingCards' = Tail(remainingCards)
    /\ resultStatus' = "null"
    /\ checkReport' = Null

SS_recordSwipe(cardText, side) ==
    /\ userAnswers' = [userAnswers EXCEPT ![cardText] = side]
    /\ IF side = "left"
       THEN bucketLeft' = Append(bucketLeft, cardText) /\ UNCHANGED bucketRight
       ELSE bucketRight' = Append(bucketRight, cardText) /\ UNCHANGED bucketLeft
    /\ remainingCards' = Tail(remainingCards)
    /\ resultStatus' = "null"
    /\ checkReport' = Null

\* the swipe card, rendered in 'playing' while a card is left
SS_onDragEnd ==
    /\ SS
    /\ gameState = "playing"
    /\ currentGame # Null
    /\ activeCard # NoString
    /\ \E offsetX \in Offsets :
          IF offsetX <= 0 - SWIPE_THRESHOLD_PX
          THEN SS_recordSwipe(activeCard, "left")
          ELSE IF offsetX >= SWIPE_THRESHOLD_PX
               THEN SS_recordSwipe(activeCard, "right")
               ELSE UNCHANGED swipeRound
    /\ UNCHANGED <<env, mounted, sessionId, gameState, currentGame, queuedGames, stats, message,
                   impostorRound, flipTimer, genCalls, answerCalls>>

SS_perCard(game, answers) ==
    [c \in Range(game.cards) |->
        [correct |-> answers[c] = game.answer_key[c],
         expectedSide |-> game.answer_key[c],
         userSide |-> answers[c],
         why |-> game.why[c]]]

\* cards.some(...) in place of cards.every(...)
SS_allCorrect_some(game, perCard) ==
    \E i \in 1..Len(game.cards) : perCard[game.cards[i]].correct = TRUE

\* const allCorrect = cards.every((c) => perCard[c]?.correct === true)
SS_allCorrect(game, perCard) ==
    \A i \in 1..Len(game.cards) : perCard[game.cards[i]].correct = TRUE

\* the body sent with is_correct fixed to true
SS_answerCall_true(allCorrect) ==
    [session_id |-> sessionId, game_type |-> "swipe_sort", is_correct |-> TRUE,
     selected |-> userAnswers, status |-> "sent"]

\* body of POST /api/game/answer
SS_answerCall(allCorrect) ==
    [session_id |-> sessionId, game_type |-> "swipe_sort", is_correct |-> allCorrect,
     selected |-> userAnswers, status |-> "sent"]

\* the cards taken off the game itself while they are walked
SS_gameRead_shift ==
    /\ currentGame' = [currentGame EXCEPT !.cards = Tail(@)]
    /\ UNCHANGED queuedGames

\* handleCheck reads answer_key, cards and why of currentGame into locals;
\* it calls neither setCurrentGame nor setQueuedGames
SS_gameRead == UNCHANGED <<currentGame, queuedGames>>

\* the best streak never raised
SS_nextBestStreak_kept(nextStreak) == bestStreak

\* if (nextStreak > bestStreak) setBestStreak(nextStreak)
SS_nextBestStreak(nextStreak) == IF nextStreak > bestStreak THEN nextStreak ELSE bestStreak

SS_handleCheck ==
    IF currentGame = Null
    THEN UNCHANGED vars
    ELSE IF ~allSwiped
    THEN /\ message' = Text("Swipe all cards first, then click Check.")
         /\ UNCHANGED <<env, mounted, sessionId, gameState, currentGame, queuedGames, stats,
                        swipeRound, impostorRound, flipTimer, genCalls, answerCalls>>
    ELSE LET perCard == SS_perCard(currentGame, userAnswers)
             allCorrect == SS_allCorrect(currentGame, perCard)
         IN /\ checkReport' = [allCorrect |-> allCorrect, perCard |-> perCard]
            /\ score' = [points |-> score.points + (IF allCorrect THEN 1 ELSE 0),
                         rounds |-> score.rounds + 1]
            /\ resultStatus' = Tri(allCorrect)
            /\ IF allCorrect
               THEN /\ streak' = streak + 1
                    /\ bestStreak' = SS_nextBestStreak(streak + 1)
                    /\ message' = Text("Perfect! All cards are in the correct category. +1 point")
               ELSE /\ streak' = 0
                    /\ UNCHANGED bestStreak
                    /\ message' = Text("Not quite. Some cards are in the wrong category.")
            /\ IF sessionId # NoString
               THEN answerCalls' = Append(answerCalls, SS_answerCall(allCorrect))
               ELSE UNCHANGED answerCalls
            /\ gameState' = "playing"
            /\ SS_gameRead
            /\ UNCHANGED <<env, mounted, sessionId,
                           remainingCards, bucketLeft, bucketRight, userAnswers,
                           impostorRound, flipTimer, genCalls>>

\* the "Check" button, rendered in 'playing', disabled while cards are left
SS_clickCheck ==
    /\ SS
    /\ gameState = "playing"
    /\ currentGame # Null
    /\ allSwiped
    /\ score.rounds < MaxRounds
    /\ Len(answerCalls) + detachedTotal < MaxPending
    /\ SS_handleCheck

\* handleCheck called directly, not through its button: in any gameState,
\* with or without a game, with or without cards left, with or without a
\* generate call in flight.
SS_callCheck ==
    /\ SS
    /\ mounted
    /\ \/ currentGame = Null
       \/ Len(remainingCards) > 0
       \/ /\ score.rounds < MaxRounds
          /\ Len(answerCalls) + detachedTotal < MaxPending
    /\ SS_handleCheck

\* queuedGames.pop(): the game at the back of the queue taken
SS_destructure_pop(queue) ==
    [next |-> queue[Len(queue)], rest |-> SubSeq(queue, 1, Len(queue) - 1)]

\* const [next, ...rest] = queuedGames
SS_destructure(queue) == [next |-> Head(queue), rest |-> Tail(queue)]

SS_playNext ==
    IF Len(queuedGames) > 0
    THEN /\ currentGame' = SS_destructure(queuedGames).next
         /\ queuedGames' = SS_destructure(queuedGames).rest
         /\ SS_resetRoundState(SS_destructure(queuedGames).next)
         /\ gameState' = "playing"
         /\ UNCHANGED <<env, mounted, sessionId, stats, impostorRound, flipTimer,
                        genCalls, answerCalls>>
    ELSE SS_startGame

\* the "Next" button never disabled
SS_clickNext_enabled ==
    /\ SS
    /\ gameState = "playing"
    /\ currentGame # Null
    /\ SS_playNext

\* the "Next" button, rendered in 'playing', disabled without a check report
SS_clickNext ==
    /\ SS
    /\ gameState = "playing"
    /\ currentGame # Null
    /\ checkReport # Null
    /\ SS_playNext

\* the "Retry" button, rendered in 'error'
SS_retry ==
    /\ SS
    /\ gameState = "error"
    /\ SS_readSession
    /\ UNCHANGED <<env, mounted, currentGame, queuedGames, stats, swipeRound, impostorRound,
                   flipTimer, genCalls, answerCalls>>


\* ============================================================== Impostor
IM == page = "impostor-game"

\* the effect without its cleanup: a timeout once set stays pending
IM_flipBackEffect_noCleanup(nextGameState) ==
    flipTimer' = (flipTimer \/ (nextGameState # gameState /\ nextGameState = "result"))

\* useEffect(..., [gameState]): entering 'result' arms the 900 ms timeout,
\* any other change of gameState runs the cleanup, which clears it.
IM_flipBackEffect(nextGameState) ==
    flipTimer' = IF nextGameState = gameState THEN flipTimer ELSE (nextGameState = "result")

\* the timeout callback of the flip-back effect
IM_flipBack ==
    /\ IM
    /\ flipTimer
    /\ flippedCards' = <<>>
    /\ flipTimer' = FALSE
    /\ UNCHANGED <<env, mounted, sessionId, gameState, currentGame, queuedGames, stats, message,
                   swipeRound, selectedCard, isCorrect, genCalls, answerCalls>>

IM_initializeSession ==
    /\ IF storedSessionId = NoString
       THEN /\ sessionId' = NoString
            /\ gameState' = "error"
            /\ IM_flipBackEffect("error")
            /\ message' = Text("No session found. Go to Chat, ingest content, and get the concept marked understood first.")
       ELSE /\ sessionId' = storedSessionId
            /\ gameState' = "ready"
            /\ IM_flipBackEffect("ready")
            /\ message' = Text("Click \"Start Game\" to play Find the Impostor!")
    /\ UNCHANGED <<env, currentGame, queuedGames, stats, swipeRound, impostorRound,
                   genCalls, answerCalls>>

\* useEffect(() => { initializeSession(); }, [])
IM_mount ==
    /\ IM
    /\ ~mounted
    /\ mounted' = TRUE
    /\ IM_initializeSession

\* the "Retry" button, rendered in 'error'
IM_retry ==
    /\ IM
    /\ gameState = "error"
    /\ UNCHANGED mounted
    /\ IM_initializeSession

\* startGame up to the await of fetch
IM_startGame ==
    IF sessionId = NoString
    THEN /\ message' = Text("Error: No session found. Please refresh the page.")
         /\ UNCHANGED <<env, mounted, sessionId, gameState, currentGame, queuedGames, stats,
                        swipeRound, impostorRound, flipTimer, genCalls, answerCalls>>
    ELSE /\ gameState' = "loading"
         /\ IM_flipBackEffect("loading")
         /\ message' = Text("Generating game...")
         /\ genCalls' = Append(genCalls, GenerateCall("impostor"))
         /\ UNCHANGED <<env, mounted, sessionId, currentGame, queuedGames, stats,
                        swipeRound, impostorRound, answerCalls>>

\* the "Start Game" button, rendered in 'ready'
IM_clickStart ==
    /\ IM
    /\ gameState = "ready"
    /\ IM_startGame

\* the catch block of startGame
IM_startGameCatch(r) ==
    /\ message' = <<"Error: ", ErrorMessage(r)>>
    /\ gameState' = "error"
    /\ IM_flipBackEffect("error")
    /\ UNCHANGED <<currentGame, queuedGames, impostorRound>>

\* startGame from the await of fetch to its end
IM_startGameResume ==
    /\ IM
    /\ \E i \in 1..Len(genCalls) :
          /\ genCalls[i].response # Null
          /\ genCalls' = Remove(genCalls, i)
          /\ LET r == genCalls[i].response
                 games == r.games
             IN IF r.kind = "ok" /\ Len(games) # 0
                THEN /\ currentGame' = games[1]
                     /\ queuedGames' = Tail(games)
                     /\ gameState' = "playing"
                     /\ IM_flipBackEffect("playing")
                     /\ selectedCard' = NoString
                     /\ flippedCards' = <<>>
                     /\ isCorrect' = "null"
                     /\ message' = Text("Find the impostor! Click on a card to reveal.")
                ELSE IM_startGameCatch(r)
    /\ UNCHANGED <<env, mounted, sessionId, stats, swipeRound, answerCalls>>

IM_answerCall(correct, option) ==
    [session_id |-> sessionId, game_type |-> "impostor", is_correct |-> correct,
     selected |-> option, status |-> "sent"]

\* the clicked option compared with the first option instead of the impostor
IM_isImpostor_first(option) == option = currentGame.options[1]

\* const correct = option === currentGame.impostor
IM_isImpostor(option) == option = currentGame.impostor

\* the early return without the selectedCard test
IM_locked_flippedOnly(index) == \E k \in 1..Len(flippedCards) : flippedCards[k] = index

\* the early return of handleCardClick
IM_locked(index) == (\E k \in 1..Len(flippedCards) : flippedCards[k] = index) \/ selectedCard # NoString

IM_handleCardClick(option, index) ==
    IF IM_locked(index)
    THEN UNCHANGED vars
    ELSE LET correct == IM_isImpostor(option)
         IN /\ flippedCards' = Append(flippedCards, index)
            /\ selectedCard' = option
            /\ isCorrect' = Tri(correct)
            /\ IF sessionId # NoString
               THEN answerCalls' = Append(answerCalls, IM_answerCall(correct, option))
               ELSE UNCHANGED answerCalls
            /\ IF correct
               THEN /\ streak' = streak + 1
                    /\ bestStreak' = IF streak + 1 > bestStreak THEN streak + 1 ELSE bestStreak
                    /\ score' = [correct |-> score.correct + 1, total |-> score.total + 1]
                    /\ message' = Text("Correct! You found the impostor!")
               ELSE /\ streak' = 0
                    /\ UNCHANGED bestStreak
                    /\ score' = [correct |-> score.correct, total |-> score.total + 1]
                    /\ message' = Text("Wrong! That was not the impostor.")
            /\ gameState' = "result"
            /\ IM_flipBackEffect("result")
            /\ UNCHANGED <<env, mounted, sessionId, currentGame, queuedGames, swipeRound, genCalls>>

\* a card of the board, rendered in 'playing' and in 'result'
IM_clickCard ==
    /\ IM
    /\ gameState \in {"playing", "result"}
    /\ currentGame # Null
    /\ score.total < MaxRounds
    /\ Len(answerCalls) + detachedTotal < MaxPending
    /\ \E index \in 1..Len(currentGame.options) :
          IM_handleCardClick(currentGame.options[index], index)

\* const [next, ...rest] = queuedGames
IM_destructure(queue) == [next |-> Head(queue), rest |-> Tail(queue)]

IM_playNext ==
    IF Len(queuedGames) > 0
    THEN /\ currentGame' = IM_destructure(queuedGames).next
         /\ queuedGames' = IM_destructure(queuedGames).rest
         /\ gameState' = "playing"
         /\ IM_flipBackEffect("playing")
         /\ selectedCard' = NoString
         /\ flippedCards' = <<>>
         /\ isCorrect' = "null"
         /\ message' = Text("Find the impostor! Click on a card to reveal.")
         /\ UNCHANGED <<env, mounted, sessionId, stats, swipeRound, genCalls, answerCalls>>
    ELSE IM_startGame

\* the "Next Game" button, rendered in 'result'
IM_clickNext ==
    /\ IM
    /\ gameState = "result"
    /\ currentGame # Null
    /\ IM_playNext

\* the "Reset Score" button, rendered in 'result': onClick={() => setGameState('ready')}
IM_clickResetScore ==
    /\ IM
    /\ gameState = "result"
    /\ currentGame # Null
    /\ gameState' = "ready"
    /\ IM_flipBackEffect("ready")
    /\ UNCHANGED <<env, mounted, sessionId, currentGame, queuedGames, stats, message,
                   swipeRound, impostorRound, genCalls, answerCalls>>

\* the "Reset Stats" button, rendered in 'ready' once a round was scored
IM_resetStats ==
    /\ IM
    /\ gameState = "ready"
    /\ score.total > 0
    /\ streak' = 0
    /\ bestStreak' = 0
    /\ score' = [correct |-> 0, total |-> 0]
    /\ message' = Text("Stats reset! Ready for a fresh start.")
    /\ UNCHANGED <<env, mounted, sessionId, gameState, currentGame, queuedGames,
                   swipeRound, impostorRound, flipTimer, genCalls, answerCalls>>

\* ========================================================== orchestrator
\* The session orchestrator, tutor policy and answer evaluator of spec
\* sections 3 and 4, as far as the tracker and the empty-graph precondition
\* go.  Scores are fixed-point numbers: Scale stands for 1.
Scale == 8
AlphaNum == 1
AlphaDen == 2

Orch_precondition_none == TRUE

\* a session with an empty concept graph cannot serve chat or practice
Orch_precondition == conceptGraph # {}

Orch_decay_reversed(s, signal) ==
    (s * (AlphaDen - AlphaNum) + (Scale - signal) * AlphaNum) \div AlphaDen

\* score' = score*(1-alpha) + signal*alpha
Orch_decay(s, signal) == (s * (AlphaDen - AlphaNum) + signal * AlphaNum) \div AlphaDen

Orch_reject(type) ==
    /\ response' = [type |-> type, error |-> "PreconditionError"]
    /\ UNCHANGED <<conceptGraph, confusionScore>>

\* ingest: builds or merges the concept graph; no concepts is an IngestionError
Orch_ingest ==
    /\ \E extracted \in SUBSET Concepts :
          IF extracted = {}
          THEN /\ response' = [type |-> "ingest", error |-> "IngestionError"]
               /\ UNCHANGED <<conceptGraph, confusionScore>>
          ELSE /\ conceptGraph' = conceptGraph \cup extracted
               /\ response' = [type |-> "ingest", error |-> "none"]
               /\ UNCHANGED confusionScore
    /\ UNCHANGED <<page, storedSessionId, detached, component>>

\* chat: the tutor policy moves the score of the referenced concept toward 1
\* on a confusion-indicating message and toward 0 on a confirmation
Orch_chat ==
    /\ \E c \in Concepts, confused \in BOOLEAN :
          IF ~Orch_precondition
          THEN Orch_reject("chat")
          ELSE /\ confusionScore' =
                     IF c \in conceptGraph
                     THEN [confusionScore EXCEPT ![c] = Orch_decay(@, IF confused THEN Scale ELSE 0)]
                     ELSE confusionScore
               /\ response' = [type |-> "chat", error |-> "none"]
               /\ UNCHANGED conceptGraph
    /\ UNCHANGED <<page, storedSessionId, detached, component>>

\* practice-request: returns a game of the session
Orch_practiceRequest ==
    /\ IF ~Orch_precondition
       THEN Orch_reject("practice-request")
       ELSE /\ response' = [type |-> "practice-request", error |-> "none"]
            /\ UNCHANGED <<conceptGraph, confusionScore>>
    /\ UNCHANGED <<page, storedSessionId, detached, component>>

\* the evaluator's tracker update for the concept tied to the answered game
Orch_evaluate(c, correct) ==
    /\ confusionScore' = [confusionScore EXCEPT ![c] = Orch_decay(@, IF correct THEN 0 ELSE Scale)]
    /\ response' = [type |-> "practice-answer", error |-> "none", concept |-> c, correct |-> correct]
    /\ UNCHANGED conceptGraph

\* practice-answer: an answer to a game generated from a concept of the graph
Orch_practiceAnswer ==
    /\ \E c \in conceptGraph, correct \in BOOLEAN : Orch_evaluate(c, correct)
    /\ UNCHANGED <<page, storedSessionId, detached, component>>

OrchNext ==
    \/ Orch_ingest
    \/ Orch_chat
    \/ Orch_practiceRequest
    \/ Orch_practiceAnswer

OrchSpec == Init /\ [][OrchNext]_vars

\* ========================================================= specification
Next ==
    \/ Navbar_navigate
    \/ Games_play
    \/ DetachedSettle
    \/ StorageChange
    \/ GenerateRespond
    \/ AnswerFulfilled
    \/ AnswerRejected
    \/ AnswerCaught
    \/ SS_mount
    \/ SS_clickStart
    \/ SS_startGameResume
    \/ SS_resetStats
    \/ SS_onDragEnd
    \/ SS_clickCheck
    \/ SS_clickNext
    \/ SS_retry
    \/ IM_mount
    \/ IM_retry
    \/ IM_clickStart
    \/ IM_startGameResume
    \/ IM_clickCard
    \/ IM_flipBack
    \/ IM_clickNext
    \/ IM_clickResetScore
    \/ IM_resetStats

Spec == Init /\ [][Next]_vars

\* ------------------------------------------------- handleCheck on its own
\* handleCheck tests neither gameState nor the calls in flight, and its
\* button is rendered in 'playing' only.  HandlerSpec applies it, called
\* directly, to the states the handlers and the environment of Spec bring a
\* mounted Swipe Sort component to: HandlerInit draws such a state,
\* HandlerNext is the call.

RECURSIVE SS_statsAfter(_)
\* streak, bestStreak and score after rounds with the given outcomes, oldest
\* first, counted as handleCheck counts them
SS_statsAfter(outcomes) ==
    IF outcomes = <<>>
    THEN [streak |-> 0, bestStreak |-> 0, score |-> [points |-> 0, rounds |-> 0]]
    ELSE LET before == SS_statsAfter(SubSeq(outcomes, 1, Len(outcomes) - 1))
             allCorrect == outcomes[Len(outcomes)]
             nextStreak == before.streak + 1
         IN [streak |-> IF allCorrect THEN nextStreak ELSE 0,
             bestStreak |-> IF allCorrect /\ nextStreak > before.bestStreak
                            THEN nextStreak ELSE before.bestStreak,
             score |-> [points |-> before.score.points + (IF allCorrect THEN 1 ELSE 0),
                        rounds |-> before.score.rounds + 1]]

RECURSIVE SS_swiped(_, _)
\* the round of a game after its first cards were swiped to the given sides:
\* resetRoundState, then recordSwipe card by card
SS_swiped(game, sides) ==
    IF sides = <<>>
    THEN [remainingCards |-> game.cards, bucketLeft |-> <<>>, bucketRight |-> <<>>,
          userAnswers |-> EmptyAnswers]
    ELSE LET before == SS_swiped(game, SubSeq(sides, 1, Len(sides) - 1))
             cardText == before.remainingCards[1]
             side == sides[Len(sides)]
         IN [remainingCards |-> Tail(before.remainingCards),
             bucketLeft |-> IF side = "left" THEN Append(before.bucketLeft, cardText)
                            ELSE before.bucketLeft,
             bucketRight |-> IF side = "left" THEN before.bucketRight
                             ELSE Append(before.bucketRight, cardText),
             userAnswers |-> [before.userAnswers EXCEPT ![cardText] = side]]

\* the responses that send startGame to its catch block
FailedResponses ==
    {r \in GenerateResponses("swipe_sort") : ~(r.kind = "ok" /\ Len(r.games) # 0)}

\* the answer calls handleCheck has sent for a session: the body of a checked
\* round of any game, not settled or rejected and not yet caught
AnswerRecords ==
    {[session_id |-> "s1", game_type |-> "swipe_sort",
      is_correct |-> SS_allCorrect(game, SS_perCard(game, SS_swiped(game, sides).userAnswers)),
      selected |-> SS_swiped(game, sides).userAnswers,
      status |-> status] :
        game \in SwipeGames, sides \in [1..Cardinality(Cards) -> Sides],
        status \in {"sent", "rejected"}}

\* what is left of a batch once its first games were dealt: the game in play
\* followed by the queue
Dealt == {SubSeq(b, i, Len(b)) : b \in Batches("swipe_sort"), i \in 1..MaxBatch + 1} \ {<<>>}

\* the stored session id and the one the component read: they differ only
\* in 'error', where local storage changes and Retry reads it again
HandlerSession ==
    IF gameState = "error"
    THEN /\ storedSessionId \in {NoString, "s1"}
         /\ sessionId = IF message = Text("No session found. Go to Chat, ingest content, and get the concept marked understood first.")
                        THEN NoString ELSE "s1"
    ELSE /\ storedSessionId = "s1"
         /\ sessionId = "s1"

\* gameState, message and the generate call in flight of a component that
\* is not in 'playing': in 'ready' after the mount effect or Retry, in
\* 'loading' with the call of startGame sent or answered, in 'error' after
\* the catch block of startGame, or after the mount effect or Retry found
\* no session
HandlerWaiting ==
    \/ /\ gameState = "ready"
       /\ message = Text("Swipe cards left/right into the correct category.")
       /\ genCalls = <<>>
    \/ /\ gameState = "loading"
       /\ message = Text("Generating game...")
       /\ \E r \in {Null} \cup GenerateResponses("swipe_sort") :
             genCalls = <<[session_id |-> "s1", game_type |-> "swipe_sort", response |-> r]>>
    \/ /\ gameState = "error"
       /\ \E r \in FailedResponses : message = <<"Error: ", ErrorMessage(r)>>
       /\ genCalls = <<>>
    \/ /\ gameState = "error"
       /\ message = Text("No session found. Go to Chat, ingest content, and get the concept marked understood first.")
       /\ genCalls = <<>>

\* no game was dealt yet: nothing was swiped or scored and no answer call
\* was sent
HandlerNoGame ==
    /\ currentGame = Null
    /\ queuedGames = <<>>
    /\ streak = 0
    /\ bestStreak = 0
    /\ score = [points |-> 0, rounds |-> 0]
    /\ remainingCards = <<>>
    /\ bucketLeft = <<>>
    /\ bucketRight = <<>>
    /\ userAnswers = EmptyAnswers
    /\ checkReport = Null
    /\ resultStatus = "null"
    /\ answerCalls = <<>>
    /\ HandlerWaiting

\* A game was dealt after rounds with the given outcomes and some of its
\* cards were swiped; once all are swiped the round may have been checked.
\* A checked round with an empty queue may have gone on to startGame, and
\* from its catch block to Retry and 'ready', where Reset Stats is offered.
HandlerGame ==
    /\ \E dealt \in Dealt, outcomes \in SeqsUpTo(BOOLEAN, MaxRounds),
          sides \in SeqsUpTo(Sides, Cardinality(Cards)), checked \in BOOLEAN,
          afterReset \in BOOLEAN :
          LET game == Head(dealt)
              round == SS_swiped(game, sides)
              perCard == SS_perCard(game, round.userAnswers)
              allCorrect == SS_allCorrect(game, perCard)
              after == SS_statsAfter(IF afterReset THEN <<>> ELSE outcomes)
          IN /\ Len(sides) <= Len(game.cards)
             /\ checked => round.remainingCards = <<>>
             /\ (checked /\ ~afterReset) => (outcomes # <<>> /\ outcomes[Len(outcomes)] = allCorrect)
             /\ afterReset => (checked /\ outcomes = <<>>)
             /\ currentGame = game
             /\ queuedGames = Tail(dealt)
             /\ streak = after.streak
             /\ bestStreak = after.bestStreak
             /\ score = after.score
             /\ remainingCards = round.remainingCards
             /\ bucketLeft = round.bucketLeft
             /\ bucketRight = round.bucketRight
             /\ userAnswers = round.userAnswers
             /\ checkReport = IF checked THEN [allCorrect |-> allCorrect, perCard |-> perCard]
                               ELSE Null
             /\ resultStatus = IF checked THEN Tri(allCorrect) ELSE "null"
             /\ \/ /\ ~afterReset
                   /\ gameState = "playing"
                   /\ genCalls = <<>>
                   /\ message =
                         IF ~checked THEN Text("Swipe cards into the correct category.")
                         ELSE IF allCorrect
                         THEN Text("Perfect! All cards are in the correct category. +1 point")
                         ELSE Text("Not quite. Some cards are in the wrong category.")
                \/ /\ checked
                   /\ Tail(dealt) = <<>>
                   /\ HandlerWaiting
                \/ /\ afterReset
                   /\ Tail(dealt) = <<>>
                   /\ gameState = "ready"
                   /\ message = Text("Stats reset! Ready for a fresh start.")
                   /\ genCalls = <<>>
    /\ answerCalls \in SeqsUpTo(AnswerRecords, MaxPending - detachedTotal)

\* a mounted Swipe Sort component, with the calls of unmounted components
\* that are still in flight
HandlerInit ==
    /\ page = "swipe-sort-game"
    /\ mounted = TRUE
    /\ detached \in {[generate |-> i, answer |-> j] :
                        i \in 0..MaxPending, j \in 0..MaxPending}
    /\ detachedTotal <= MaxPending
    /\ HandlerNoGame \/ HandlerGame
    /\ HandlerSession
    /\ selectedCard = NoString
    /\ flippedCards = <<>>
    /\ isCorrect = "null"
    /\ flipTimer = FALSE
    /\ conceptGraph = {}
    /\ confusionScore = [c \in Concepts |-> 0]
    /\ response = NoResponse

\* handleCheck called directly
HandlerNext == SS_callCheck

HandlerSpec == HandlerInit /\ [][HandlerNext]_vars


\* ================================================================ claims
\* The claims speak of a game component from its mount to its unmount.  A
\* step of setCurrentPage to another page ends the life of the component;
\* every other step is a step in the life of the component that is mounted.
sameComponent == page' = page

cardsOf(game) == Range(game.cards)
mismatched == {c \in cardsOf(currentGame) : userAnswers[c] # currentGame.answer_key[c]}
flaggedWrong == {c \in cardsOf(currentGame) : ~checkReport.perCard[c].correct}

\* C1: the report of a checked Swipe Sort round marks a card correct exactly
\* when the side it was swiped to equals its answer-key side, and allCorrect
\* exactly when every card is correct; all cards on their answer-key side give
\* allCorrect with every card correct, one mismatched card gives allCorrect
\* false with exactly that card flagged.
C1_SwipeVerdict ==
    (SS /\ checkReport # Null) =>
        /\ DOMAIN checkReport.perCard = cardsOf(currentGame)
        /\ \A c \in cardsOf(currentGame) :
              /\ checkReport.perCard[c].correct = (userAnswers[c] = currentGame.answer_key[c])
              /\ checkReport.perCard[c].expectedSide = currentGame.answer_key[c]
              /\ checkReport.perCard[c].userSide = userAnswers[c]
        /\ checkReport.allCorrect = (\A c \in cardsOf(currentGame) : checkReport.perCard[c].correct)
        /\ (mismatched = {} => checkReport.allCorrect /\ flaggedWrong = {})
        /\ \A m \in cardsOf(currentGame) :
              mismatched = {m} => (~checkReport.allCorrect /\ flaggedWrong = {m})
        /\ resultStatus = Tri(checkReport.allCorrect)

C1_Witness ==
    /\ SS
    /\ checkReport # Null
    /\ currentGame = SG_ab
    /\ Cardinality(mismatched) = 1
    /\ Cardinality(flaggedWrong) = 1
    /\ ~checkReport.allCorrect

\* C2: in the Impostor game the verdict is correct exactly when the clicked
\* option is the impostor of the current game; score.correct grows only on
\* such a click and score.total grows by one on every scored click.
C2_ImpostorVerdict ==
    [][sameComponent =>
      (IM =>
        /\ (isCorrect' # "null" => isCorrect' = Tri(selectedCard' = currentGame'.impostor))
        /\ (selectedCard = NoString /\ selectedCard' # NoString) =>
              /\ selectedCard' \in Range(currentGame.options)
              /\ isCorrect' = Tri(selectedCard' = currentGame.impostor)
              /\ score'.total = score.total + 1
              /\ score'.correct = score.correct + (IF selectedCard' = currentGame.impostor THEN 1 ELSE 0)
        /\ (score'.total > score.total => (selectedCard = NoString /\ selectedCard' # NoString))
        /\ (score'.correct > score.correct =>
              (selectedCard' = currentGame.impostor /\ isCorrect' = "true"))
      )]_vars

C2_Witness ==
    /\ IM
    /\ gameState = "result"
    /\ isCorrect = "true"
    /\ selectedCard = currentGame.impostor
    /\ score = [correct |-> 1, total |-> 2]

\* C3 (as claimed): once a Swipe Sort round has a check report, further
\* Check clicks on it neither count another round nor send another answer
\* request.
C3_CheckedOnce ==
    [][(SS /\ checkReport # Null /\ checkReport' # Null) =>
          /\ score'.rounds <= score.rounds
          /\ score'.points <= score.points
          /\ streak' <= streak
          /\ bestStreak' <= bestStreak
          /\ Len(answerCalls') <= Len(answerCalls)
      ]_vars

\* C4: once a card of the current Impostor game was clicked, a further card
\* click changes neither score, streak, bestStreak nor isCorrect and sends no
\* answer request, also after the flip-back has emptied flippedCards; the
\* round is scored again only after a new game was loaded.
C4_ImpostorScoredOnce ==
    [][(IM /\ selectedCard # NoString) =>
          /\ IM_clickCard => (UNCHANGED <<stats, isCorrect>> /\ answerCalls' = answerCalls)
          /\ selectedCard' # NoString =>
                /\ score'.total <= score.total
                /\ score'.correct <= score.correct
                /\ isCorrect' = isCorrect
                /\ selectedCard' = selectedCard
                /\ Len(answerCalls') <= Len(answerCalls)
      ]_vars

C4_Witness ==
    /\ IM
    /\ gameState = "result"
    /\ selectedCard # NoString
    /\ flippedCards = <<>>
    /\ ~flipTimer
    /\ score.total = 1

\* C5 (as claimed): no /api/game/generate call is in flight while games are
\* queued.
C5_NoGenerateWhileQueued ==
    genCalls # <<>> => queuedGames = <<>>


\* the generate call whose continuation runs in this step, if any
resumed(i) ==
    /\ i \in 1..Len(genCalls)
    /\ genCalls[i].response # Null
    /\ genCalls' = Remove(genCalls, i)

usable(r) == r.kind = "ok" /\ Len(r.games) >= 1

roundState == <<swipeRound, impostorRound>>

\* C6: a generate response with games g1..gn, n >= 1, makes g1 the current
\* game and queues g2..gn in order; Next with a non-empty queue makes the
\* front of the queue the current game and removes it; the current game and
\* the queue change in no other way, so a batch is presented in order and no
\* game of it twice.
C6_BatchOrder ==
    [][sameComponent =>
      (/\ \A i \in 1..Len(genCalls) :
             (resumed(i) /\ usable(genCalls[i].response)) =>
                 /\ currentGame' = genCalls[i].response.games[1]
                 /\ queuedGames' = Tail(genCalls[i].response.games)
                 /\ gameState' = "playing"
       /\ <<currentGame, queuedGames>>' # <<currentGame, queuedGames>> =>
             \/ \E i \in 1..Len(genCalls) : resumed(i) /\ usable(genCalls[i].response)
             \/ /\ genCalls' = genCalls
                /\ queuedGames # <<>>
                /\ currentGame' = Head(queuedGames)
                /\ queuedGames' = Tail(queuedGames)
                /\ gameState' = "playing"
       /\ ((SS_clickNext \/ IM_clickNext) /\ queuedGames # <<>>) =>
             /\ currentGame' = Head(queuedGames)
             /\ queuedGames' = Tail(queuedGames)
             /\ genCalls' = genCalls
      )]_vars

\* a batch of three was dealt: its first game is in play and checked, the
\* other two wait in the queue in batch order, two different games, and Next
\* is enabled
C6_Witness ==
    /\ gameState = "playing"
    /\ Len(queuedGames) = 2
    /\ <<currentGame>> \o queuedGames = LongBatch(IF SS THEN "swipe_sort" ELSE "impostor")
    /\ queuedGames[1] # queuedGames[2]
    /\ SS /\ checkReport # Null
    /\ genCalls = <<>>

verdictSet == IF SS THEN checkReport # Null ELSE isCorrect # "null"

\* C7: the answer call is fire-and-forget: the step that sends it has already
\* set the verdict, and no outcome of the call (the write succeeds, fails or
\* never completes) changes the verdict, score, streak, bestStreak,
\* gameState, currentGame or queuedGames.
C7_BestEffortWrite ==
    [][sameComponent =>
      (/\ Len(answerCalls') > Len(answerCalls) =>
             (verdictSet' /\ gameState' \in {"playing", "result"})
       /\ (answerCalls' # answerCalls /\ Len(answerCalls') <= Len(answerCalls)) =>
             UNCHANGED <<checkReport, resultStatus, isCorrect, selectedCard, stats,
                         gameState, currentGame, queuedGames, message>>
      )]_vars

C7_Witness ==
    /\ verdictSet
    /\ \E i \in 1..Len(answerCalls) : answerCalls[i].status = "rejected"

\* C8 (as claimed): when the promise of an answer call is rejected, the
\* failure is shown: something the component renders changes.
C8_FailedWriteSurfaced ==
    [][(\E i \in 1..Len(answerCalls) :
            answerCalls[i].status = "rejected" /\ answerCalls' = Remove(answerCalls, i))
          => ui' # ui
      ]_vars

\* C9: no request is sent without a session id: a mounted component without
\* one is in 'error', a generate or answer call is only made with the id the
\* component holds, and 'error' is left only for 'ready', by a Retry that
\* finds an id in local storage; a mount or Retry that finds none leaves the
\* component in 'error' with no id.
C9_SessionRequired ==
    [][sameComponent =>
      (/\ (mounted' /\ sessionId' = NoString) => gameState' = "error"
       /\ Len(genCalls') > Len(genCalls) =>
             (sessionId # NoString /\ genCalls'[Len(genCalls')].session_id = sessionId)
       /\ Len(answerCalls') > Len(answerCalls) =>
             (sessionId # NoString /\ answerCalls'[Len(answerCalls')].session_id = sessionId)
       /\ (gameState = "error" /\ gameState' # "error") =>
             /\ gameState' = "ready"
             /\ storedSessionId # NoString
             /\ sessionId' = storedSessionId
       /\ (~mounted /\ mounted' /\ storedSessionId = NoString) =>
             (gameState' = "error" /\ sessionId' = NoString)
       /\ (gameState = "error" /\ storedSessionId = NoString) =>
             (gameState' = "error" /\ sessionId' \in {sessionId, NoString})
      )]_vars

C9_Witness ==
    /\ mounted
    /\ sessionId = NoString
    /\ gameState = "error"
    /\ currentGame # Null
    /\ genCalls = <<>>

\* C10: a generation that fails (non-2xx response, rejected fetch, or no
\* games) ends in 'error' with the message 'Error: ' followed by the detail,
\* and from the moment the call is made until then currentGame, queuedGames,
\* the per-round state, score, streak and bestStreak do not change.
C10_FailedGenerationCommitsNothing ==
    [][sameComponent =>
      (/\ \A i \in 1..Len(genCalls) :
             (resumed(i) /\ ~usable(genCalls[i].response)) =>
                 /\ gameState' = "error"
                 /\ Len(message') = 2
                 /\ message'[1] = "Error: "
                 /\ (genCalls[i].response.kind = "not_ok" /\ genCalls[i].response.detail # NoString)
                       => message'[2] = genCalls[i].response.detail
                 /\ UNCHANGED <<currentGame, queuedGames, roundState, stats>>
       /\ (genCalls # <<>> /\ ~\E i \in 1..Len(genCalls) : resumed(i) /\ usable(genCalls[i].response)) =>
             UNCHANGED <<currentGame, queuedGames, roundState, stats>>
      )]_vars

C10_Witness ==
    /\ gameState = "error"
    /\ currentGame # Null
    /\ queuedGames = <<>>
    /\ Len(message) = 2
    /\ message = <<"Error: ", "detail-1">>
    /\ (IF SS THEN score.rounds ELSE score.total) > 0

\* a call to the back end that is in flight for session sid
callsInFlight(sid) ==
    Cardinality({i \in 1..Len(genCalls) : genCalls[i].session_id = sid})
    + Cardinality({i \in 1..Len(answerCalls) : answerCalls[i].session_id = sid})
    + detachedTotal

\* C11 (as claimed): at most one request of a session is in flight at any
\* time; an answer call and a generate call of one session never overlap.
C11_OneRequestInFlight ==
    \A sid \in {"s1"} : callsInFlight(sid) <= 1

\* the structural invariant of a Swipe Sort game (spec section 3)
swipeWellFormed(game) ==
    /\ \A i \in 1..Len(game.cards) : game.answer_key[game.cards[i]] \in Sides
    /\ \A side \in Sides : \E i \in 1..Len(game.cards) : game.answer_key[game.cards[i]] = side
    /\ \A i, j \in 1..Len(game.cards) : game.cards[i] = game.cards[j] => i = j

\* C12 (as claimed): every Swipe Sort game that is the current game or is
\* queued has one answer-key side per card, a card on each side and no card
\* text twice.
C12_SwipeGamesWellFormed ==
    SS => /\ currentGame # Null => swipeWellFormed(currentGame)
          /\ \A i \in 1..Len(queuedGames) : swipeWellFormed(queuedGames[i])

\* the structural invariant of an Impostor game (spec sections 3 and 8)
impostorWellFormed(game) ==
    Cardinality({i \in 1..Len(game.options) : game.options[i] = game.impostor}) = 1

\* C13 (as claimed): every Impostor game that is the current game or is
\* queued has exactly one option equal to its impostor, so exactly one card
\* of a round is the correct click.
C13_ImpostorGamesWellFormed ==
    IM => /\ currentGame # Null => impostorWellFormed(currentGame)
          /\ \A i \in 1..Len(queuedGames) : impostorWellFormed(queuedGames[i])

\* C14 (as claimed): a generation that fails is tried again before the
\* failure is shown.  startGame makes one fetch per call, so every failed
\* response is the first failure of its generation: it must not end in
\* 'error'.
C14_FirstFailureRetried ==
    [][\A i \in 1..Len(genCalls) :
          (resumed(i) /\ ~usable(genCalls[i].response)) =>
              (gameState' # "error" /\ genCalls' # <<>>)
      ]_vars

\* C15: a chat or practice request of a session whose concept graph is
\* empty is answered with a PreconditionError and changes nothing of the
\* session; a chat or practice request that was served has a concept graph.
C15_EmptyGraphRejected ==
    /\ (response.type \in {"chat", "practice-request"} /\ conceptGraph = {}) =>
           response.error = "PreconditionError"
    /\ conceptGraph = {} => \A c \in Concepts : confusionScore[c] = 0

C15_Witness ==
    /\ conceptGraph = {}
    /\ response = [type |-> "chat", error |-> "PreconditionError"]

\* C16: an incorrect answer for concept C never lowers confusionScore(C) and
\* a correct answer never raises it, so neither does any run of consecutive
\* incorrect (correct) answers; the score stays within [0, 1].
C16_ConfusionMonotone ==
    [][\A c \in Concepts :
          /\ confusionScore'[c] \in 0..Scale
          /\ (response'.type = "practice-answer" /\ response'.concept = c) =>
                IF response'.correct
                THEN confusionScore'[c] <= confusionScore[c]
                ELSE confusionScore'[c] >= confusionScore[c]
      ]_vars

\* two consecutive incorrect answers have raised the score twice
C16_Witness ==
    \E c \in Concepts :
        /\ response.type = "practice-answer"
        /\ response.concept = c
        /\ ~response.correct
        /\ confusionScore[c] = Orch_decay(Orch_decay(0, Scale), Scale)
        /\ confusionScore[c] > Orch_decay(0, Scale)

\* the answer request a step has just sent
sentCall == answerCalls'[Len(answerCalls')]

\* C17: every answer request carries the client's own verdict and the
\* answer it was computed from.  Swipe Sort: is_correct is the allCorrect of
\* the check report just produced, selected has a side for every card of
\* the current game and for no other card.  Impostor: selected is an option
\* of the current game and is_correct says whether it is the impostor.
C17_AnswerCarriesVerdict ==
    [][Len(answerCalls') > Len(answerCalls) =>
          /\ sentCall.session_id = sessionId
          /\ SS => /\ sentCall.game_type = "swipe_sort"
                   /\ checkReport' # Null
                   /\ sentCall.is_correct = checkReport'.allCorrect
                   /\ sentCall.is_correct =
                          (\A c \in cardsOf(currentGame) :
                               sentCall.selected[c] = currentGame.answer_key[c])
                   /\ \A c \in Cards :
                          IF c \in cardsOf(currentGame)
                          THEN sentCall.selected[c] \in Sides
                          ELSE sentCall.selected[c] = NoSide
          /\ IM => /\ sentCall.game_type = "impostor"
                   /\ sentCall.selected \in Range(currentGame.options)
                   /\ sentCall.is_correct = (sentCall.selected = currentGame.impostor)
      ]_vars

\* a Swipe Sort answer with a wrong verdict is in flight
C17_Witness ==
    /\ SS
    /\ checkReport # Null
    /\ ~checkReport.allCorrect
    /\ \E i \in 1..Len(answerCalls) :
          /\ answerCalls[i].status = "sent"
          /\ ~answerCalls[i].is_correct
          /\ answerCalls[i].selected = userAnswers

\* a step that scores a round: handleCheck past its early returns, or
\* handleCardClick past its early return
evaluated ==
    \/ SS /\ score'.rounds = score.rounds + 1
    \/ IM /\ score'.total = score.total + 1

\* a step that takes the top card off the dealt pile
swiped == SS /\ Len(remainingCards') = Len(remainingCards) - 1

\* C18: evaluating an answer leaves the current game and the queue as they
\* were, and so does swiping a card: the pile that shrinks is the copy held
\* in remainingCards, never the card list of the game.
C18_EvaluationReadsOnly ==
    [][(sameComponent /\ (evaluated \/ swiped)) => UNCHANGED <<currentGame, queuedGames>>]_vars

\* a checked Swipe Sort round whose game still has every card, with the
\* dealt pile used up
C18_Witness ==
    /\ SS
    /\ checkReport # Null
    /\ score.rounds >= 1
    /\ remainingCards = <<>>
    /\ currentGame \in SwipeGames
    /\ Len(currentGame.cards) = 2

\* C19: handleCheck called with cards left on the pile, or without a
\* current game, changes at most the message: no check report, no change of
\* score, streak, bestStreak or gameState, and no answer request.
C19_EarlyCheckScoresNothing ==
    [][(SS /\ (currentGame = Null \/ remainingCards # <<>>) /\ SS_handleCheck) =>
          /\ checkReport' = Null
          /\ UNCHANGED <<env, mounted, sessionId, gameState, currentGame, queuedGames, stats,
                         swipeRound, impostorRound, flipTimer, genCalls, answerCalls>>
      ]_vars

\* the early check has been made: its message shows, a card is still on the
\* pile and nothing was scored
C19_Witness ==
    /\ SS
    /\ message = Text("Swipe all cards first, then click Check.")
    /\ remainingCards # <<>>
    /\ userAnswers # EmptyAnswers
    /\ checkReport = Null
    /\ score.rounds = 0
    /\ answerCalls = <<>>

\* C20 (as claimed): after a click on "Reset Score" on the Impostor result
\* screen the score is 0/0 and the current streak is 0.
C20_ResetScoreResets ==
    [][IM_clickResetScore => (score' = [correct |-> 0, total |-> 0] /\ streak' = 0)]_vars

\* the 900 ms timeout of the flip-back effect fires
flippedBack == flipTimer /\ ~flipTimer' /\ gameState' = gameState

\* C21: the flip-back timeout is pending exactly while a card is revealed on
\* the result screen and never outside 'result', so it cannot clear the cards
\* of a later round; when it fires flippedCards becomes empty and the
\* selection stays, which keeps every card locked.
C21_FlipBack ==
    [][/\ flipTimer' => (IM /\ gameState' = "result")
       /\ (IM /\ gameState' = "result") => 
              /\ selectedCard' # NoString
              /\ flippedCards' # <<>> => flipTimer'
              /\ \A index \in 1..Len(currentGame'.options) : IM_locked(index)'
       /\ flippedBack =>
              /\ flippedCards # <<>>
              /\ flippedCards' = <<>>
              /\ UNCHANGED <<selectedCard, isCorrect, currentGame, queuedGames, stats>>
      ]_vars

\* the card has flipped back on the result screen and the selection is kept
C21_Witness ==
    /\ IM
    /\ gameState = "result"
    /\ flippedCards = <<>>
    /\ ~flipTimer
    /\ selectedCard # NoString
    /\ isCorrect # "null"

\* how often card c occurs in the sequence s
count(s, c) == Cardinality({i \in 1..Len(s) : s[i] = c})

\* the last n elements of s
suffix(s, n) == SubSeq(s, Len(s) - n + 1, Len(s))

\* every card of the current game lies on the pile or in one bucket
conserved ==
    (SS /\ currentGame # Null) =>
        /\ \A c \in Cards :
              count(currentGame.cards, c) =
                  count(remainingCards, c) + count(bucketLeft, c) + count(bucketRight, c)
        /\ Len(remainingCards) <= Len(currentGame.cards)
        /\ remainingCards = suffix(currentGame.cards, Len(remainingCards))

\* C22: in Swipe Sort every card of the current game is in exactly one of
\* remainingCards, bucketLeft and bucketRight, counted with multiplicity, and
\* remainingCards is a suffix of the game's cards in their order; a recorded
\* swipe moves the front card, and only it, into the chosen bucket.
C22_CardConservation ==
    [][sameComponent =>
      (/\ conserved'
       /\ swiped =>
             /\ remainingCards # <<>>
             /\ remainingCards' = Tail(remainingCards)
             /\ \/ /\ bucketLeft' = Append(bucketLeft, Head(remainingCards))
                   /\ bucketRight' = bucketRight
                   /\ userAnswers'[Head(remainingCards)] = "left"
                \/ /\ bucketRight' = Append(bucketRight, Head(remainingCards))
                   /\ bucketLeft' = bucketLeft
                   /\ userAnswers'[Head(remainingCards)] = "right"
      )]_vars

\* the first card of a two-card game was swiped left, the second is on the pile
C22_Witness ==
    /\ SS
    /\ currentGame # Null
    /\ Len(currentGame.cards) = 2
    /\ remainingCards = <<currentGame.cards[2]>>
    /\ bucketLeft = <<currentGame.cards[1]>>
    /\ bucketRight = <<>>

\* a step that puts a game into play: a generate response with games is
\* taken, or Next takes the front game of the queue
loaded ==
    \/ Len(genCalls') < Len(genCalls) /\ gameState' = "playing"
    \/ Len(queuedGames') < Len(queuedGames)

\* C23: loading a new game resets the state of the round and leaves score,
\* streak and bestStreak alone.  Swipe Sort: the pile is the new game's
\* cards, buckets, answers, check report and result status are cleared.
\* Impostor: selectedCard, flippedCards and isCorrect are cleared.
C23_NewGameResetsRound ==
    [][sameComponent =>
      (loaded =>
          /\ currentGame' # Null
          /\ gameState' = "playing"
          /\ UNCHANGED stats
          /\ SS => /\ remainingCards' = currentGame'.cards
                   /\ bucketLeft' = <<>>
                   /\ bucketRight' = <<>>
                   /\ userAnswers' = EmptyAnswers
                   /\ checkReport' = Null
                   /\ resultStatus' = "null"
          /\ IM => /\ selectedCard' = NoString
                   /\ flippedCards' = <<>>
                   /\ isCorrect' = "null"
      )]_vars

\* a game is in play with a fresh round after an earlier round was scored
C23_Witness ==
    /\ SS
    /\ gameState = "playing"
    /\ currentGame # Null
    /\ score.rounds = 1
    /\ genCalls = <<>>
    /\ remainingCards = currentGame.cards
    /\ userAnswers = EmptyAnswers
    /\ checkReport = Null

\* the rounds scored correct and the rounds scored, of either game
correctCount == IF SS THEN score.points ELSE IF IM THEN score.correct ELSE 0
roundCount == IF SS THEN score.rounds ELSE IF IM THEN score.total ELSE 0

\* C24: in both games 0 <= streak <= bestStreak <= correct count <= round
\* count in every reachable state.
C24_StatsOrdered ==
    /\ 0 <= streak
    /\ streak <= bestStreak
    /\ bestStreak <= correctCount
    /\ correctCount <= roundCount

\* a correct round followed by an incorrect one: every inequality but the
\* last is strict or at its bound
C24_Witness ==
    /\ streak = 0
    /\ bestStreak = 1
    /\ correctCount = 1
    /\ roundCount = 2

\* the verdict of the round a step has just scored
scoredCorrect == IF SS THEN checkReport'.allCorrect ELSE isCorrect' = "true"

\* a step that resets the stats
statsReset == roundCount' < roundCount

\* C25: streak counts the rounds scored correct in a row since the last
\* incorrect round or stats reset, and bestStreak is the largest value streak
\* has had since the last stats reset.  Step by step: a correct round adds
\* one to streak and raises bestStreak to it when it is larger, an incorrect
\* round sets streak to 0 and keeps bestStreak, a reset zeroes both, and no
\* other step changes either.
C25_StreakCounts ==
    [][sameComponent =>
      (IF evaluated
       THEN IF scoredCorrect
            THEN /\ streak' = streak + 1
                 /\ bestStreak' = IF streak' > bestStreak THEN streak' ELSE bestStreak
            ELSE /\ streak' = 0
                 /\ bestStreak' = bestStreak
       ELSE IF statsReset
            THEN streak' = 0 /\ bestStreak' = 0
            ELSE UNCHANGED <<streak, bestStreak>>
      )]_vars

\* two correct rounds in a row
C25_Witness ==
    /\ streak = 2
    /\ bestStreak = 2
    /\ correctCount = 2

\* a step that ends the Swipe Sort round in play: another game is loaded or
\* the component leaves 'playing'
advanced == SS /\ gameState = "playing" /\ (loaded \/ gameState' # "playing")

\* C26: in Swipe Sort a check report exists only while no card is left on
\* the pile, every swipe clears it, and the round in play is left only while
\* a check report exists: the player never advances past an unchecked round.
C26_NextNeedsCheck ==
    [][sameComponent =>
      (/\ (SS /\ checkReport' # Null) =>
              (currentGame' # Null /\ remainingCards' = <<>>)
       /\ swiped => (checkReport' = Null /\ resultStatus' = "null")
       /\ advanced => (checkReport # Null /\ remainingCards = <<>>)
      )]_vars

\* a checked round with a queued game to advance to
C26_Witness ==
    /\ SS
    /\ gameState = "playing"
    /\ checkReport # Null
    /\ remainingCards = <<>>
    /\ queuedGames # <<>>

\* C27: at most one generate request is in flight, and while one is pending
\* gameState is 'loading'; a step taken in 'loading' is the arrival or the
\* handling of the response and nothing else, so the response of a request
\* is handled in the 'loading' state that sent it and never replaces a game
\* that is being played; the outcome of a call made by a component that was
\* unmounted since changes nothing of the component that is mounted now.
C27_OneGenerateInFlight ==
    [][sameComponent =>
      (/\ Len(genCalls') <= 1
       /\ genCalls' # <<>> => gameState' = "loading"
       /\ (mounted /\ gameState = "loading") =>
              /\ genCalls # <<>>
              /\ Len(genCalls') <= Len(genCalls)
              /\ UNCHANGED stats
              /\ Len(genCalls') = Len(genCalls) =>
                     UNCHANGED <<sessionId, gameState, currentGame, queuedGames,
                                 swipeRound, impostorRound>>
       /\ Len(genCalls') < Len(genCalls) => gameState = "loading"
       /\ detached' # detached => UNCHANGED component
      )]_vars

\* the response of a request sent by Next after a scored round has arrived
\* and waits to be handled, with the component still in 'loading'
C27_Witness ==
    /\ gameState = "loading"
    /\ Len(genCalls) = 1
    /\ genCalls[1].response # Null
    /\ currentGame # Null
    /\ roundCount >= 1

====
